---- MODULE Spec2Model ----
(***************************************************************************)
(* Model of the try_map crate (src/src/lib.rs): the FallibleMapExt and     *)
(* FlipResultExt extension traits over Option, Result and Vec, and the     *)
(* `?`-chained call sequences of the crate's tests.                        *)
(*                                                                         *)
(* Encoding of the host types:                                             *)
(*   Option<T>     <<"None">>  |  <<"Some", x>>                             *)
(*   Result<T,E>   <<"Ok", v>> |  <<"Err", e>>                              *)
(*   Vec<T>        a sequence; Rust position i is TLA+ index i+1           *)
(* A closure T -> Result<U,E> is the record [fails, err, add] standing for *)
(*   |x| if fails { Err(err) } else { Ok(x + add) }                        *)
(***************************************************************************)
EXTENDS Integers, Sequences, FiniteSets, TLC

\* ---------------------------------------------------------------- bounds
MaxLen == 3      \* longest Vec handed to the Vec instantiations of flip
MaxSteps == 5    \* longest `?` chain (test_try_map_3 has five steps)
MaxVal == 2      \* Vec elements and closure increments range over 1..MaxVal

StartVal == 42   \* the value the tests' chains start from

\* ---------------------------------------------------------------- values
None == <<"None">>
Some(x) == <<"Some", x>>
Ok(v) == <<"Ok", v>>
Err(e) == <<"Err", e>>

IsSome(o) == o[1] = "Some"
IsOk(r) == r[1] = "Ok"

Pending == <<"Pending">>
Returned(v) == <<"Ret", v>>

Values == 1..MaxVal
Errs == {"oh noes", "oh foes"}
StartVals == {0, StartVal}

Options(S) == {None} \cup {Some(x) : x \in S}
Results(S) == {Ok(x) : x \in S} \cup {Err(e) : e \in Errs}
Vecs(S) == UNION {[1..n -> S] : n \in 0..MaxLen}

Closures == [fails : {FALSE}, err : {"oh noes"}, add : Values]
              \cup [fails : {TRUE}, err : Errs, add : {1}]
ClosureSeqs == UNION {[1..n -> Closures] : n \in 0..MaxSteps}

\* The closure applied to x:  if fails { Err(err) } else { Ok(x + add) }
Apply(f, x) == IF f.fails THEN Err(f.err) ELSE Ok(x + f.add)

\* Result::map(Some)
ResultMapSome(r) == IF IsOk(r) THEN Ok(Some(r[2])) ELSE r

\* Option::map(f): the mapped option and the arguments f was invoked with
OptionMap(self, f) ==
    IF IsSome(self)
    THEN [ret |-> Some(Apply(f, self[2])), calls |-> <<self[2]>>]
    ELSE [ret |-> None, calls |-> <<>>]

\* ------------------------------------------------------------- try_map
\* Faulty variants of try_map, used to show the properties below depend on
\* its two match arms: f run on a default for None; Err turned into
\* Ok(None); Err turned into Ok(self); f's value discarded.
TryMapEager(self, f) ==
    IF IsSome(self)
    THEN [ret |-> ResultMapSome(Apply(f, self[2])), calls |-> <<self[2]>>]
    ELSE [ret |-> ResultMapSome(Apply(f, 0)), calls |-> <<0>>]

TryMapSwallow(self, f) ==
    IF IsSome(self)
    THEN [ret |-> IF IsOk(Apply(f, self[2]))
                  THEN Ok(Some(Apply(f, self[2])[2])) ELSE Ok(None),
          calls |-> <<self[2]>>]
    ELSE [ret |-> Ok(None), calls |-> <<>>]

TryMapKeepOld(self, f) ==
    IF IsSome(self)
    THEN [ret |-> IF IsOk(Apply(f, self[2]))
                  THEN Ok(Some(Apply(f, self[2])[2])) ELSE Ok(self),
          calls |-> <<self[2]>>]
    ELSE [ret |-> Ok(None), calls |-> <<>>]

TryMapStale(self, f) ==
    IF IsSome(self)
    THEN [ret |-> IF IsOk(Apply(f, self[2]))
                  THEN Ok(self) ELSE Apply(f, self[2]),
          calls |-> <<self[2]>>]
    ELSE [ret |-> Ok(None), calls |-> <<>>]

\* Option<T>::try_map: Some(x) => f(x).map(Some), None => Ok(None).
\* ret is the returned Result<Option<U>,E>, calls the arguments f was
\* invoked with, in order.
TryMap(self, f) ==
    IF IsSome(self)
    THEN [ret |-> ResultMapSome(Apply(f, self[2])), calls |-> <<self[2]>>]
    ELSE [ret |-> Ok(None), calls |-> <<>>]

\* ---------------------------------------------------------------- flip
\* Faulty variants of Option<Result>::flip: r.ok() in place of r.map(Some);
\* the Ok payload dropped.
FlipOptOk(self) ==
    IF IsSome(self)
    THEN (IF IsOk(self[2]) THEN Ok(Some(self[2][2])) ELSE Ok(None))
    ELSE Ok(None)

FlipOptDropValue(self) ==
    IF IsSome(self)
    THEN (IF IsOk(self[2]) THEN Ok(None) ELSE self[2])
    ELSE Ok(None)

\* Option<Result<T,E>>::flip: Some(r) => r.map(Some), None => Ok(None).
FlipOpt(self) ==
    IF IsSome(self) THEN ResultMapSome(self[2]) ELSE Ok(None)

\* ---------------------------------------------------------------- state
VARIABLES
    pc,          \* "idle", "flip_vec_res", "flip_vec_opt", "chain", "done"
    op,          \* the operation in progress or just returned
    self,        \* the receiver of the call (chain: the starting Option)
    fns,         \* the closures passed: <<f>> for try_map, the chain's steps
    calls,       \* arguments the closures were invoked with, in order
    idx,         \* elements taken from the Vec iterator / chain steps done
    result_vec,  \* the local result_vec of the Vec flips
    inspected,   \* Rust positions matched by the for loop, in order
    cur,         \* the Option flowing through a chain
    ret          \* Pending, or Returned(v) once the call has returned

vars == <<pc, op, self, fns, calls, idx, result_vec, inspected, cur, ret>>

Init ==
    /\ pc = "idle"
    /\ op = "none"
    /\ self = <<>>
    /\ fns = <<>>
    /\ calls = <<>>
    /\ idx = 0
    /\ result_vec = <<>>
    /\ inspected = <<>>
    /\ cur = None
    /\ ret = Pending

\* A call of Option<T>::try_map(f).
CallTryMap ==
    /\ pc = "idle"
    /\ \E o \in Options(StartVals), f \in Closures :
          /\ self' = o
          /\ fns' = <<f>>
          /\ calls' = TryMap(o, f).calls
          /\ ret' = Returned(TryMap(o, f).ret)
    /\ op' = "try_map"
    /\ pc' = "done"
    /\ UNCHANGED <<idx, result_vec, inspected, cur>>

\* A call of Option<Result<T,E>>::flip().
CallFlipOpt ==
    /\ pc = "idle"
    /\ \E o \in Options(Results(Values)) :
          /\ self' = o
          /\ ret' = Returned(FlipOpt(o))
    /\ op' = "flip_opt"
    /\ pc' = "done"
    /\ UNCHANGED <<fns, calls, idx, result_vec, inspected, cur>>

\* Faulty variant of the entry: a first pass over all of self before the
\* building loop (check-then-build).
FlipVecResStartTwoPhase ==
    /\ pc = "idle"
    /\ \E v \in Vecs(Results(Values)) :
          /\ self' = v
          /\ inspected' = [i \in 1..Len(v) |-> i - 1]
    /\ op' = "flip_vec_res"
    /\ pc' = "flip_vec_res"
    /\ idx' = 0
    /\ result_vec' = <<>>
    /\ UNCHANGED <<fns, calls, cur, ret>>

\* Vec<Result<T,E>>::flip(), entry: result_vec = Vec::with_capacity(len).
FlipVecResStart ==
    /\ pc = "idle"
    /\ \E v \in Vecs(Results(Values)) : self' = v
    /\ op' = "flip_vec_res"
    /\ pc' = "flip_vec_res"
    /\ idx' = 0
    /\ result_vec' = <<>>
    /\ inspected' = <<>>
    /\ UNCHANGED <<fns, calls, cur, ret>>

\* Faulty variants of the loop body: Err(e) skipped instead of returned;
\* Ok(u) inserted at the front instead of pushed.
FlipVecResStepSkipErr ==
    /\ pc = "flip_vec_res"
    /\ idx < Len(self)
    /\ idx' = idx + 1
    /\ inspected' = Append(inspected, idx)
    /\ result_vec' = IF IsOk(self[idx + 1])
                     THEN Append(result_vec, self[idx + 1][2]) ELSE result_vec
    /\ UNCHANGED <<pc, op, self, fns, calls, cur, ret>>

FlipVecResStepPushFront ==
    /\ pc = "flip_vec_res"
    /\ idx < Len(self)
    /\ idx' = idx + 1
    /\ inspected' = Append(inspected, idx)
    /\ IF IsOk(self[idx + 1])
       THEN /\ result_vec' = <<self[idx + 1][2]>> \o result_vec
            /\ UNCHANGED <<pc, ret>>
       ELSE /\ ret' = Returned(Err(self[idx + 1][2]))
            /\ pc' = "done"
            /\ UNCHANGED result_vec
    /\ UNCHANGED <<op, self, fns, calls, cur>>

\* One iteration of `for t in self`: Ok(u) is pushed, Err(e) returns.
FlipVecResStep ==
    /\ pc = "flip_vec_res"
    /\ idx < Len(self)
    /\ idx' = idx + 1
    /\ inspected' = Append(inspected, idx)
    /\ IF IsOk(self[idx + 1])
       THEN /\ result_vec' = Append(result_vec, self[idx + 1][2])
            /\ UNCHANGED <<pc, ret>>
       ELSE /\ ret' = Returned(Err(self[idx + 1][2]))
            /\ pc' = "done"
            /\ UNCHANGED result_vec
    /\ UNCHANGED <<op, self, fns, calls, cur>>

\* The iterator is exhausted: Ok(result_vec).
FlipVecResFinish ==
    /\ pc = "flip_vec_res"
    /\ idx = Len(self)
    /\ ret' = Returned(Ok(result_vec))
    /\ pc' = "done"
    /\ UNCHANGED <<op, self, fns, calls, idx, result_vec, inspected, cur>>

\* Vec<Option<T>>::flip(), entry.
FlipVecOptStart ==
    /\ pc = "idle"
    /\ \E v \in Vecs(Options(Values)) : self' = v
    /\ op' = "flip_vec_opt"
    /\ pc' = "flip_vec_opt"
    /\ idx' = 0
    /\ result_vec' = <<>>
    /\ inspected' = <<>>
    /\ UNCHANGED <<fns, calls, cur, ret>>

\* Faulty variant of the loop body: None skipped instead of returned.
FlipVecOptStepSkipNone ==
    /\ pc = "flip_vec_opt"
    /\ idx < Len(self)
    /\ idx' = idx + 1
    /\ inspected' = Append(inspected, idx)
    /\ result_vec' = IF IsSome(self[idx + 1])
                     THEN Append(result_vec, self[idx + 1][2]) ELSE result_vec
    /\ UNCHANGED <<pc, op, self, fns, calls, cur, ret>>

\* One iteration of `for t in self`: Some(u) is pushed, None returns.
FlipVecOptStep ==
    /\ pc = "flip_vec_opt"
    /\ idx < Len(self)
    /\ idx' = idx + 1
    /\ inspected' = Append(inspected, idx)
    /\ IF IsSome(self[idx + 1])
       THEN /\ result_vec' = Append(result_vec, self[idx + 1][2])
            /\ UNCHANGED <<pc, ret>>
       ELSE /\ ret' = Returned(None)
            /\ pc' = "done"
            /\ UNCHANGED result_vec
    /\ UNCHANGED <<op, self, fns, calls, cur>>

\* The iterator is exhausted: Some(result_vec).
FlipVecOptFinish ==
    /\ pc = "flip_vec_opt"
    /\ idx = Len(self)
    /\ ret' = Returned(Some(result_vec))
    /\ pc' = "done"
    /\ UNCHANGED <<op, self, fns, calls, idx, result_vec, inspected, cur>>

\* inner() of the tests: a chain `o.try_map(f1)?.try_map(f2)? ...; Ok(x)`
\* (style "chain_try_map") or `o.map(f1).flip()?.map(f2).flip()? ...`
\* (style "chain_flip").
ChainStart ==
    /\ pc = "idle"
    /\ \E o \in Options(StartVals), fs \in ClosureSeqs :
          /\ self' = o
          /\ cur' = o
          /\ fns' = fs
    /\ \E style \in {"chain_try_map", "chain_flip"} : op' = style
    /\ pc' = "chain"
    /\ idx' = 0
    /\ calls' = <<>>
    /\ UNCHANGED <<result_vec, inspected, ret>>

\* One step of the chain and its `?`: Err(e) returns Err(e) from inner(),
\* Ok(v) continues with v.
StepOf(style, o, f) ==
    IF style = "chain_try_map"
    THEN TryMap(o, f)
    ELSE [ret |-> FlipOpt(OptionMap(o, f).ret), calls |-> OptionMap(o, f).calls]

ChainStep ==
    /\ pc = "chain"
    /\ idx < Len(fns)
    /\ LET s == StepOf(op, cur, fns[idx + 1]) IN
          /\ calls' = calls \o s.calls
          /\ idx' = idx + 1
          /\ IF IsOk(s.ret)
             THEN /\ cur' = s.ret[2]
                  /\ UNCHANGED <<pc, ret>>
             ELSE /\ ret' = Returned(s.ret)
                  /\ pc' = "done"
                  /\ UNCHANGED cur
    /\ UNCHANGED <<op, self, fns, result_vec, inspected>>

\* The trailing `Ok(x)` of inner().
ChainFinish ==
    /\ pc = "chain"
    /\ idx = Len(fns)
    /\ ret' = Returned(Ok(cur))
    /\ pc' = "done"
    /\ UNCHANGED <<op, self, fns, calls, idx, result_vec, inspected, cur>>

\* The caller drops the returned value; nothing is retained between calls.
Drop ==
    /\ pc = "done"
    /\ pc' = "idle"
    /\ op' = "none"
    /\ self' = <<>>
    /\ fns' = <<>>
    /\ calls' = <<>>
    /\ idx' = 0
    /\ result_vec' = <<>>
    /\ inspected' = <<>>
    /\ cur' = None
    /\ ret' = Pending

Next ==
    \/ CallTryMap
    \/ CallFlipOpt
    \/ FlipVecResStart
    \/ FlipVecResStep
    \/ FlipVecResFinish
    \/ FlipVecOptStart
    \/ FlipVecOptStep
    \/ FlipVecOptFinish
    \/ ChainStart
    \/ ChainStep
    \/ ChainFinish
    \/ Drop

Spec == Init /\ [][Next]_vars

\* The body of a call runs to its return: the for loops and the chain are
\* straight-line sequential code.
FairSpec ==
    /\ Spec
    /\ WF_vars(FlipVecResStep \/ FlipVecResFinish)
    /\ WF_vars(FlipVecOptStep \/ FlipVecOptFinish)
    /\ WF_vars(ChainStep \/ ChainFinish)

TypeOK ==
    /\ pc \in {"idle", "flip_vec_res", "flip_vec_opt", "chain", "done"}
    /\ idx \in 0..(MaxLen + MaxSteps)
    /\ (pc = "done") = (ret # Pending)

\* ------------------------------------------------- helpers for the claims
VecOps == {"flip_vec_res", "flip_vec_opt"}
ChainOps == {"chain_try_map", "chain_flip"}

\* Positions (TLA+ indices) of v holding Err / None, and the lowest one.
Failing(v) == {i \in 1..Len(v) : v[i][1] \in {"Err", "None"}}
Lowest(S) == CHOOSE i \in S : \A j \in S : i <= j

\* The payloads of a Vec of Ok(_) / Some(_), position by position.
Unwrapped(v) == [i \in 1..Len(v) |-> v[i][2]]

\* Steps of a chain whose closure fails.
FailingSteps(fs) == {i \in 1..Len(fs) : fs[i].fails}

\* f_n(...f_2(f_1(x))) for closures that all succeed.
RECURSIVE Composed(_, _)
Composed(fs, x) ==
    IF fs = <<>> THEN x
    ELSE Composed(Tail(fs), Apply(Head(fs), x)[2])

Inc == [fails |-> FALSE, err |-> "oh noes", add |-> 1]
FourIncs == <<Inc, Inc, Inc, Inc>>

DoneOp(o) == pc = "done" /\ op = o

\* ------------------------------------------------------------------ C1
\* C1: try_map on None returns Ok(None) and the closure is invoked zero
\* times, whatever the closure is.
C1_AbsentShortCircuit ==
    (DoneOp("try_map") /\ ~IsSome(self)) =>
        /\ calls = <<>>
        /\ IsOk(ret[2])
        /\ ret[2][2] = None

C1_Witness ==
    /\ DoneOp("try_map")
    /\ ~IsSome(self)
    /\ fns[1].fails
    /\ ret = Returned(Ok(None))

\* ------------------------------------------------------------------ C2
\* C2: try_map on Some(x) invokes f exactly once, on x; f(x) = Ok(y) gives
\* Ok(Some(y)), f(x) = Err(e) gives Err(e), the error itself, unwrapped.
C2_PresentAppliesOnce ==
    (DoneOp("try_map") /\ IsSome(self)) =>
        /\ calls = <<self[2]>>
        /\ IsOk(ret[2]) = IsOk(Apply(fns[1], self[2]))
        /\ IF IsOk(ret[2])
           THEN /\ IsSome(ret[2][2])
                /\ ret[2][2][2] = Apply(fns[1], self[2])[2]
           ELSE ret[2][2] = fns[1].err

C2_Witness ==
    /\ DoneOp("try_map")
    /\ IsSome(self)
    /\ fns[1].fails
    /\ fns[1].err = "oh foes"
    /\ ret = Returned(Err("oh foes"))

\* ------------------------------------------------------------------ C3
\* C3: flip of a Vec<Result> holding at least one Err returns Err(e) with e
\* the error at the lowest failing position; no later error and no Ok(vec)
\* is returned.
C3_FirstFailureWins ==
    (DoneOp("flip_vec_res") /\ Failing(self) # {}) =>
        /\ ~IsOk(ret[2])
        /\ ret[2][2] = self[Lowest(Failing(self))][2]

C3_Witness ==
    /\ DoneOp("flip_vec_res")
    /\ Len(self) = 3
    /\ IsOk(self[1])
    /\ self[2] = Err("oh noes")
    /\ self[3] = Err("oh foes")
    /\ ret = Returned(Err("oh noes"))

\* ------------------------------------------------------------------ C4
\* C4: flip of a Vec<Result> of length n whose elements are all Ok(x_i)
\* returns Ok(seq) with seq of length n and seq[i] = x_i; the empty Vec
\* gives Ok of the empty Vec.
C4_AllSuccessPreservesOrder ==
    (DoneOp("flip_vec_res") /\ Failing(self) = {}) =>
        /\ IsOk(ret[2])
        /\ Len(ret[2][2]) = Len(self)
        /\ \A i \in 1..Len(self) : ret[2][2][i] = self[i][2]
        /\ (self = <<>> => ret[2][2] = <<>>)

C4_Witness ==
    /\ DoneOp("flip_vec_res")
    /\ Len(self) >= 2
    /\ Failing(self) = {}
    /\ self[1][2] # self[2][2]
    /\ ret = Returned(Ok(Unwrapped(self)))

\* ------------------------------------------------------------------ C5
\* C5: flip of an Option<Result> maps None to Ok(None), Some(Ok(x)) to
\* Ok(Some(x)) and Some(Err(e)) to Err(e); None never yields an Err.
C5_FlipOptionOfResult ==
    DoneOp("flip_opt") =>
        IF ~IsSome(self)
        THEN IsOk(ret[2]) /\ ret[2][2] = None
        ELSE IF IsOk(self[2])
             THEN IsOk(ret[2]) /\ ret[2][2] = Some(self[2][2])
             ELSE ~IsOk(ret[2]) /\ ret[2][2] = self[2][2]

C5_Witness ==
    /\ DoneOp("flip_opt")
    /\ IsSome(self)
    /\ self[2] = Err("oh noes")
    /\ ret = Returned(Err("oh noes"))

\* ------------------------------------------------------------------ C6
\* C6: flip of a Vec<Option> of length n returns None exactly when some
\* element is None; otherwise Some(seq) of the n unwrapped values in the
\* original order, Some of the empty Vec for the empty Vec.
C6_FlipVecOfOption ==
    DoneOp("flip_vec_opt") =>
        /\ (~IsSome(ret[2])) = (Failing(self) # {})
        /\ IsSome(ret[2]) =>
              /\ Len(ret[2][2]) = Len(self)
              /\ \A i \in 1..Len(self) : ret[2][2][i] = self[i][2]

C6_Witness ==
    /\ DoneOp("flip_vec_opt")
    /\ Len(self) = 3
    /\ IsSome(self[1])
    /\ ~IsSome(self[2])
    /\ IsSome(self[3])
    /\ ret = Returned(None)

\* ------------------------------------------------------------------ C7
\* C7: in a `?` chain from Some(x), when some step's closure fails the
\* chain returns the Err of the earliest failing step, and the closures of
\* the later steps are never invoked.
C7_EarliestFailureEndsChain ==
    (pc = "done" /\ op \in ChainOps /\ IsSome(self)
       /\ FailingSteps(fns) # {}) =>
        /\ ~IsOk(ret[2])
        /\ ret[2][2] = fns[Lowest(FailingSteps(fns))].err
        /\ Len(calls) = Lowest(FailingSteps(fns))
        /\ idx = Lowest(FailingSteps(fns))

C7_Witness ==
    /\ DoneOp("chain_flip")
    /\ self = Some(StartVal)
    /\ Len(fns) = 5
    /\ FailingSteps(fns) = {3, 5}
    /\ fns[3].err = "oh noes"
    /\ fns[5].err = "oh foes"
    /\ ret = Returned(Err("oh noes"))
    /\ Len(calls) = 3

\* ------------------------------------------------------------------ C8
\* C8 as stated: from Some(42), four successive try_map(+1) steps with `?`
\* between them yield Ok(Some(45)).
C8_Original ==
    (DoneOp("chain_try_map") /\ fns = FourIncs /\ IsSome(self)
       /\ self[2] = StartVal) =>
        ret = Returned(Ok(Some(45)))

\* C8 amended: from Some(42), four successive try_map(+1) steps with `?`
\* between them yield Ok(Some(46)).
C8_FourIncsGive46 ==
    (DoneOp("chain_try_map") /\ fns = FourIncs /\ IsSome(self)
       /\ self[2] = StartVal) =>
        ret = Returned(Ok(Some(46)))

C8_Witness ==
    /\ DoneOp("chain_try_map")
    /\ fns = FourIncs
    /\ self = Some(StartVal)
    /\ calls = <<42, 43, 44, 45>>
    /\ IsOk(ret[2])

\* ------------------------------------------------------------------ C9
\* C9: a chain of N >= 0 steps from Some(x) whose closures all succeed
\* yields Ok(Some(g(x))), g the composition of the closures in order; step
\* i is applied to exactly the value the first i-1 steps produced.
C9_SuccessfulChainIsComposition ==
    (pc = "done" /\ op \in ChainOps /\ IsSome(self)
       /\ FailingSteps(fns) = {}) =>
        /\ ret = Returned(Ok(Some(Composed(fns, self[2]))))
        /\ Len(calls) = Len(fns)
        /\ \A i \in 1..Len(fns) :
              calls[i] = Composed(SubSeq(fns, 1, i - 1), self[2])

C9_Witness ==
    /\ DoneOp("chain_flip")
    /\ IsSome(self)
    /\ Len(fns) = 3
    /\ FailingSteps(fns) = {}
    /\ fns[1].add # fns[2].add
    /\ ret = Returned(Ok(Some(self[2] + fns[1].add + fns[2].add + fns[3].add)))

\* ----------------------------------------------------------------- C10
\* At every point of a Vec flip the positions inspected so far are
\* 0, 1, ..., idx-1, each once and in order; at the return they are all n
\* positions when nothing failed and 0..k when k is the lowest position
\* holding Err / None.
SinglePass ==
    op \in VecOps =>
        /\ inspected = [i \in 1..idx |-> i - 1]
        /\ idx <= Len(self)
        /\ pc = "done" =>
              IF Failing(self) = {}
              THEN Len(inspected) = Len(self)
              ELSE Len(inspected) = Lowest(Failing(self))

\* C10: both Vec instantiations of flip return after one left-to-right
\* pass: every position is inspected at most once, n positions when all
\* elements are Ok / Some, exactly positions 0..k when k is the lowest
\* position holding Err / None, and the call always returns.
C10_SinglePassTerminates ==
    /\ []SinglePass
    /\ (pc \in VecOps) ~> (pc = "done")

C10_Witness ==
    /\ DoneOp("flip_vec_opt")
    /\ Len(self) = 3
    /\ Failing(self) = {2, 3}
    /\ inspected = <<0, 1>>
====
